---------------------------- MODULE Spec2Model ----------------------------
(***************************************************************************)
(* Model of fcelli/syst-breakdown: run_fits.py (stage 1: derive one fit    *)
(* command per systematics group and dispatch it) and syst_breakdown.py    *)
(* (stage 2: discover the alternative fit outputs, load the POIs, check    *)
(* them against the base fit, compute the impacts, print the table).       *)
(*                                                                         *)
(* Strings are sequences of one-character strings, so that split, join,    *)
(* splitext, substring search and glob matching are computed character by  *)
(* character as Python computes them.  Numbers read from a fit result are  *)
(* integers in a fixed unit; math.sqrt is the root rounded down to that    *)
(* unit.  sys.exit(1) and an uncaught exception both end the run with exit *)
(* code 1; they are told apart by pc ("exited" / "crashed").               *)
(*                                                                         *)
(* Both runs start at the first statement of main() after parse_args().    *)
(***************************************************************************)
EXTENDS Integers, Sequences, FiniteSets, TLC

VARIABLES
    pc,          \* position of main(): see the actions
    exit_code,   \* -1 while running, then the process exit code
    log,         \* logging.warning / logging.error records, in order
    cmd,         \* run_fits: args.cmd
    groups,      \* run_fits: syst_groups.json, <<[name, systs]>> in declared order
    NPinfo,      \* run_fits: read_NP_info(), <<[name, value]>> in container order
    condor,      \* run_fits: args.condor
    gi,          \* run_fits: groups already handled by generate_alt_cmds
    alt_cmds,    \* run_fits: the derived commands
    dispatched,  \* run_fits: commands handed to os.system, with the mode
    input,       \* syst_breakdown: args.input
    used,        \* syst_breakdown: the group names stage 1 generated files for
    fs,          \* syst_breakdown: directory, <<[path, vars]>>
    poi_list,    \* syst_breakdown: args.poi.split(',')
    fnames,      \* syst_breakdown: get_fnames(), <<[key, val]>> in insertion order
    poi_data,    \* syst_breakdown: load_poi_data(), <<[key, val]>> of <<[key, val]>>
    impacts,     \* syst_breakdown: compute_impacts()
    report       \* syst_breakdown: the lines print_syst_breakdown printed

vars == <<pc, exit_code, log, cmd, groups, NPinfo, condor, gi, alt_cmds,
          dispatched, input, used, fs, poi_list, fnames, poi_data, impacts,
          report>>

fitsVars == <<cmd, groups, NPinfo, condor, gi, alt_cmds, dispatched>>
breakdownVars == <<input, used, fs, poi_list, fnames, poi_data, impacts, report>>

(***************************************************************************)
(* Python built-ins on strings, lists and insertion-ordered dicts          *)
(***************************************************************************)

Range(s) == {s[i] : i \in 1..Len(s)}

\* s[a:b] with 1-based inclusive bounds
Slice(s, a, b) == IF a > b THEN <<>> ELSE SubSeq(s, a, b)

\* str.startswith
StartsWith(s, p) == Len(p) <= Len(s) /\ SubSeq(s, 1, Len(p)) = p

\* str.endswith
EndsWith(s, p) ==
    Len(p) <= Len(s) /\ Slice(s, Len(s) - Len(p) + 1, Len(s)) = p

\* p in s
Contains(s, p) ==
    \E i \in 1..(Len(s) - Len(p) + 1) : SubSeq(s, i, i + Len(p) - 1) = p

\* x in list
InList(l, x) == \E i \in 1..Len(l) : l[i] = x

\* list.index(x): the first position
IndexOf(l, x) == CHOOSE i \in 1..Len(l) : l[i] = x /\ \A j \in 1..(i-1) : l[j] # x

\* str.rfind(c), 0 when absent
RFind(s, c) ==
    IF \E i \in 1..Len(s) : s[i] = c
    THEN CHOOSE i \in 1..Len(s) : s[i] = c /\ \A j \in (i+1)..Len(s) : s[j] # c
    ELSE 0

\* str.find(p) from position `from`, 0 when absent
FindFrom(s, p, from) ==
    IF \E i \in from..(Len(s) - Len(p) + 1) : SubSeq(s, i, i + Len(p) - 1) = p
    THEN CHOOSE i \in from..(Len(s) - Len(p) + 1) :
            /\ SubSeq(s, i, i + Len(p) - 1) = p
            /\ \A j \in from..(i-1) : SubSeq(s, j, j + Len(p) - 1) # p
    ELSE 0

\* str.split(sep): non-overlapping occurrences, left to right (sep non-empty)
RECURSIVE SplitOn(_, _)
SplitOn(s, sep) ==
    LET i == FindFrom(s, sep, 1) IN
    IF i = 0 THEN <<s>>
    ELSE <<Slice(s, 1, i - 1)>> \o SplitOn(Slice(s, i + Len(sep), Len(s)), sep)

\* str.split(): runs of whitespace separate the tokens, none is empty
RECURSIVE SplitWs(_)
SplitWs(s) ==
    IF s = <<>> THEN <<>>
    ELSE IF s[1] = " " THEN SplitWs(Tail(s))
    ELSE LET sp == FindFrom(s, <<" ">>, 1) IN
         IF sp = 0 THEN <<s>>
         ELSE <<Slice(s, 1, sp - 1)>> \o SplitWs(Slice(s, sp + 1, Len(s)))

\* sep.join(l)
RECURSIVE Join(_, _)
Join(l, sep) ==
    IF l = <<>> THEN <<>>
    ELSE IF Len(l) = 1 THEN l[1]
    ELSE l[1] \o sep \o Join(Tail(l), sep)

\* os.path.splitext: the last dot of the last path component, unless only
\* dots precede it in that component
SplitExt(p) ==
    LET sepIndex == RFind(p, "/")
        dotIndex == RFind(p, ".")
    IN  IF dotIndex > sepIndex
           /\ \E k \in (sepIndex + 1)..(dotIndex - 1) : p[k] # "."
        THEN <<Slice(p, 1, dotIndex - 1), Slice(p, dotIndex, Len(p))>>
        ELSE <<p, <<>>>>

\* dict: key in d
HasKey(d, k) == \E i \in 1..Len(d) : d[i].key = k

\* dict: d[k]
Get(d, k) == d[CHOOSE i \in 1..Len(d) : d[i].key = k].val

\* dict: d[k] = v keeps the position of a key already there
Put(d, k, v) ==
    IF HasKey(d, k)
    THEN [i \in 1..Len(d) |-> IF d[i].key = k THEN [key |-> k, val |-> v] ELSE d[i]]
    ELSE Append(d, [key |-> k, val |-> v])

Keys(d) == [i \in 1..Len(d) |-> d[i].key]

\* '{}'.format(x) of a float held in tenths: sign, integer part, '.', one digit
Digit(n) == CASE n = 0 -> "0" [] n = 1 -> "1" [] n = 2 -> "2" [] n = 3 -> "3"
              [] n = 4 -> "4" [] n = 5 -> "5" [] n = 6 -> "6" [] n = 7 -> "7"
              [] n = 8 -> "8" [] n = 9 -> "9"

RECURSIVE Digits(_)
Digits(n) == IF n < 10 THEN <<Digit(n)>> ELSE Digits(n \div 10) \o <<Digit(n % 10)>>

FormatFloat(t) ==
    LET a == IF t < 0 THEN -t ELSE t IN
    (IF t < 0 THEN <<"-">> ELSE <<>>) \o Digits(a \div 10) \o <<".">> \o <<Digit(a % 10)>>


(***************************************************************************)
(* run_fits.py                                                             *)
(***************************************************************************)

OptO == <<"-","o">>
OptP == <<"-","p">>
RootExt == <<".","r","o","o","t">>

\* MatchedKeys with a fault: exact match instead of containment
RECURSIVE MatchedKeysExact(_, _)
MatchedKeysExact(info, syst) ==
    IF info = <<>> THEN <<>>
    ELSE (IF info[1].key = syst THEN <<info[1]>> ELSE <<>>)
         \o MatchedKeysExact(Tail(info), syst)

\* fixed_systs, one pass of its loop: the keys of info containing syst
RECURSIVE MatchedKeys(_, _)
MatchedKeys(info, syst) ==
    IF info = <<>> THEN <<>>
    ELSE (IF Contains(info[1].key, syst) THEN <<info[1]>> ELSE <<>>)
         \o MatchedKeys(Tail(info), syst)

\* fixed_systs: syst_list and the warnings, before the join
RECURSIVE FixedList(_, _)
FixedList(systs, info) ==
    IF systs = <<>> THEN [list |-> <<>>, log |-> <<>>]
    ELSE LET matched == MatchedKeys(info, systs[1])
             rest    == FixedList(Tail(systs), info)
         IN  IF matched = <<>>
             THEN [list |-> rest.list,
                   log  |-> <<[level |-> "warning", what |-> "no_np_info",
                               arg |-> systs[1]]>> \o rest.log]
             ELSE [list |-> [i \in 1..Len(matched) |->
                                matched[i].key \o <<"=">> \o FormatFloat(matched[i].val)]
                            \o rest.list,
                   log  |-> rest.log]

fixed_systs(systs, info) ==
    LET r == FixedList(systs, info) IN
    [str |-> Join(r.list, <<",">>), log |-> r.log]

\* EditOut with a fault: the group suffix lands after the extension
EditOutAfterExt(split_cmd, group_name) ==
    IF ~InList(split_cmd, OptO)
    THEN [exit |-> FALSE,
          split |-> Append(split_cmd, OptO \o <<" ">> \o group_name \o RootExt),
          log |-> <<>>]
    ELSE LET idx == IndexOf(split_cmd, OptO) IN
         IF idx = Len(split_cmd) \/ SplitExt(split_cmd[idx + 1])[2] # RootExt
         THEN [exit |-> TRUE, split |-> split_cmd, log |-> <<>>]
         ELSE [exit |-> FALSE,
               split |-> [split_cmd EXCEPT
                            ![idx + 1] = split_cmd[idx + 1] \o <<"_">> \o group_name],
               log |-> <<>>]

\* edit_cmd, the -o option: the tokens after it, or exit
EditOut(split_cmd, group_name) ==
    IF ~InList(split_cmd, OptO)
    THEN [exit |-> FALSE,
          split |-> Append(split_cmd, OptO \o <<" ">> \o group_name \o RootExt),
          log |-> <<[level |-> "warning", what |-> "no_o", arg |-> <<>>]>>]
    ELSE LET idx == IndexOf(split_cmd, OptO) IN
         IF idx = Len(split_cmd)
         THEN [exit |-> TRUE, split |-> split_cmd,
               log |-> <<[level |-> "error", what |-> "o_last", arg |-> <<>>]>>]
         ELSE LET parts == SplitExt(split_cmd[idx + 1]) IN
              IF parts[2] # RootExt
              THEN [exit |-> TRUE, split |-> split_cmd,
                    log |-> <<[level |-> "error", what |-> "o_ext", arg |-> <<>>]>>]
              ELSE [exit |-> FALSE,
                    split |-> [split_cmd EXCEPT
                                 ![idx + 1] = (parts[1] \o <<"_">> \o group_name) \o parts[2]],
                    log |-> <<>>]

\* edit_cmd, the -p option
EditPois(split_cmd, fixed) ==
    IF ~InList(split_cmd, OptP)
    THEN [exit |-> FALSE,
          split |-> Append(split_cmd, OptP \o <<" ">> \o fixed),
          log |-> <<[level |-> "warning", what |-> "no_p", arg |-> <<>>]>>]
    ELSE LET idx == IndexOf(split_cmd, OptP) IN
         IF idx = Len(split_cmd)
         THEN [exit |-> TRUE, split |-> split_cmd,
               log |-> <<[level |-> "error", what |-> "p_last", arg |-> <<>>]>>]
         ELSE LET pois == split_cmd[idx + 1] IN
              IF ~InList(pois, "=")
              THEN [exit |-> TRUE, split |-> split_cmd,
                    log |-> <<[level |-> "error", what |-> "p_format", arg |-> <<>>]>>]
              ELSE [exit |-> FALSE,
                    split |-> [split_cmd EXCEPT ![idx + 1] = pois \o <<",">> \o fixed],
                    log |-> <<>>]

\* edit_cmd: sys.exit(1) in the -o part ends the call before the -p part
edit_cmd(c, group_name, fixed) ==
    LET o == EditOut(SplitWs(c), group_name) IN
    IF o.exit THEN [exit |-> TRUE, cmd |-> <<>>, log |-> o.log]
    ELSE LET p == EditPois(o.split, fixed) IN
         IF p.exit THEN [exit |-> TRUE, cmd |-> <<>>, log |-> o.log \o p.log]
         ELSE [exit |-> FALSE, cmd |-> Join(p.split, <<" ">>), log |-> o.log \o p.log]

\* main: condor_cmd
CondorCmd(c, folder) ==
    <<"b","a","s","h"," ","s","u","b","m","i","t","_","c","o","n","d","o","r",".","s","h"," ","-","c"," ">> \o <<"\"">> \o c \o <<"\"">> \o <<" ","-","f"," ">> \o folder

Folder == <<"o","u","t","p","u","t","/">>

\* The inputs of a stage 1 run ---------------------------------------------

MaxGroups == 2

Commands ==
    { <<"f","i","t"," ","-","o"," ","o","u","t",".","r","o","o","t"," ","-","p"," ","m","u","=","1","_","0","_","2">>,
      <<"f","i","t"," ","-","p"," ","m","u","=","1"," ","-","o"," ","d",".","d","/","o","u","t",".","r","o","o","t">>,
      <<"f","i","t"," ","-","o"," ","o","u","t",".","t","x","t"," ","-","p"," ","m","u","=","1">>,
      <<"f","i","t"," ","-","o"," ","o","u","t",".","r","o","o","t"," ","-","p"," ","m","u">>,
      <<"f","i","t"," ","-","p"," ","m","u","=","1"," ","-","o">>,
      <<"f","i","t"," "," ","-","o"," ","o","u","t",".","r","o","o","t"," ","-","p">>,
      <<"f","i","t"," ","-","p">>,
      <<"f","i","t"," ","-","p"," ","m","u","=","1">>,
      <<"f","i","t"," ","-","o"," ","o","u","t",".","r","o","o","t">> }

GroupNames == { <<"s","y","s","A">>, <<"b","_","t","a","g">>, <<"a","=","b">> }

SystLists ==
    { <<<<"a","l","p","h","a","_","a">>>>,
      <<<<"a","l","p","h","a","_","z","z">>, <<"a","l","p","h","a","_","b">>>>,
      <<<<"a","l","p","h","a","_">>, <<"a","l","p","h","a","_","a">>>>,
      <<<<"x","s","e","c","_","u","n","c","_","q">>>> }

NPinfos ==
    { <<[key |-> <<"a","l","p","h","a","_","a","_","1">>, val |-> 5]>>,
      <<[key |-> <<"a","l","p","h","a","_","b">>, val |-> -12], [key |-> <<"a","l","p","h","a","_","a","_","1">>, val |-> 5],
        [key |-> <<"y","i","e","l","d","_","Q","C","D","_","s","r","1">>, val |-> 100]>> }

\* json.load of the groups file: distinct names, declared order kept
GroupConfigs ==
    {g \in UNION {[1..n -> [name : GroupNames, systs : SystLists]] : n \in 0..MaxGroups} :
        \A i, j \in 1..Len(g) : i # j => g[i].name # g[j].name}

InitFits ==
    /\ pc = "generate"
    /\ exit_code = -1
    /\ log = <<>>
    /\ cmd \in Commands
    /\ groups \in GroupConfigs
    /\ NPinfo \in NPinfos
    /\ condor \in BOOLEAN
    /\ gi = 0
    /\ alt_cmds = <<>>
    /\ dispatched = <<>>
    /\ input = <<>> /\ used = {} /\ fs = <<>> /\ poi_list = <<>>
    /\ fnames = <<>> /\ poi_data = <<>> /\ impacts = <<>> /\ report = <<>>

\* generate_alt_cmds, one pass of its loop: fixed_systs, then edit_cmd
GenerateAltCmd ==
    /\ pc = "generate"
    /\ gi < Len(groups)
    /\ LET g == groups[gi + 1]
           f == fixed_systs(g.systs, NPinfo)
           e == edit_cmd(cmd, g.name, f.str)
       IN  /\ log' = log \o f.log \o e.log
           /\ IF e.exit
              THEN /\ pc' = "exited"
                   /\ exit_code' = 1
                   /\ UNCHANGED <<gi, alt_cmds>>
              ELSE /\ alt_cmds' = Append(alt_cmds, e.cmd)
                   /\ gi' = gi + 1
                   /\ UNCHANGED <<pc, exit_code>>
    /\ UNCHANGED <<cmd, groups, NPinfo, condor, dispatched>>
    /\ UNCHANGED breakdownVars

\* generate_alt_cmds returns; main starts its submission loop
ReturnAltCmds ==
    /\ pc = "generate"
    /\ gi = Len(groups)
    /\ pc' = "dispatch"
    /\ UNCHANGED <<exit_code, log>>
    /\ UNCHANGED fitsVars
    /\ UNCHANGED breakdownVars

\* main, one pass of its loop with --condor
DispatchCondor ==
    /\ pc = "dispatch"
    /\ condor
    /\ Len(dispatched) < Len(alt_cmds)
    /\ dispatched' = Append(dispatched,
          [mode |-> "condor", cmd |-> CondorCmd(alt_cmds[Len(dispatched) + 1], Folder)])
    /\ UNCHANGED <<pc, exit_code, log, cmd, groups, NPinfo, condor, gi, alt_cmds>>
    /\ UNCHANGED breakdownVars

\* main, one pass of its loop without --condor
DispatchLocal ==
    /\ pc = "dispatch"
    /\ ~condor
    /\ Len(dispatched) < Len(alt_cmds)
    /\ dispatched' = Append(dispatched,
          [mode |-> "local", cmd |-> alt_cmds[Len(dispatched) + 1]])
    /\ UNCHANGED <<pc, exit_code, log, cmd, groups, NPinfo, condor, gi, alt_cmds>>
    /\ UNCHANGED breakdownVars

\* main returns None
FitsDone ==
    /\ pc = "dispatch"
    /\ Len(dispatched) = Len(alt_cmds)
    /\ pc' = "done"
    /\ exit_code' = 0
    /\ UNCHANGED log
    /\ UNCHANGED fitsVars
    /\ UNCHANGED breakdownVars

NextFits ==
    \/ GenerateAltCmd
    \/ ReturnAltCmds
    \/ DispatchCondor
    \/ DispatchLocal
    \/ FitsDone

SpecFits == InitFits /\ [][NextFits]_vars

(***************************************************************************)
(* syst_breakdown.py                                                       *)
(***************************************************************************)

Base == <<"B","a","s","e">>
MuPrefix == <<"m","u","_">>

\* the tolerance main passes to check_fit_results, 0.5 = TolNum / TolDen
TolNum == 1
TolDen == 2

Abs(x) == IF x < 0 THEN -x ELSE x

\* math.sqrt, rounded down to the unit of the errors
RECURSIVE SqrtFrom(_, _)
SqrtFrom(n, r) == IF (r + 1) * (r + 1) > n THEN r ELSE SqrtFrom(n, r + 1)

Sqrt(n) == SqrtFrom(n, 0)

\* POI.__init__
POI(name, value, err_low, err_high) ==
    [name |-> name, value |-> value, err |-> <<err_low, err_high>>]

\* sub_quad_errs with a fault: the upper impact is computed from the lower errors
sub_quad_errs_low_twice(self, poi) ==
    LET d == self.err[1] * self.err[1] - poi.err[1] * poi.err[1] IN
    [res |-> <<IF d >= 0 THEN Sqrt(d) ELSE 0, IF d >= 0 THEN Sqrt(d) ELSE 0>>,
     log |-> (IF d >= 0 THEN <<>>
              ELSE <<[level |-> "warning", what |-> "low_larger",
                      arg |-> <<self.name, poi.err[1], self.err[1]>>]>>)
             \o (IF d >= 0 THEN <<>>
                 ELSE <<[level |-> "warning", what |-> "high_larger",
                         arg |-> <<self.name, poi.err[2], self.err[2]>>]>>)]

\* POI.sub_quad_errs: the pair of impacts and the warnings
sub_quad_errs(self, poi) ==
    LET dlow  == self.err[1] * self.err[1] - poi.err[1] * poi.err[1]
        dhigh == self.err[2] * self.err[2] - poi.err[2] * poi.err[2]
    IN  [res |-> <<IF dlow >= 0 THEN Sqrt(dlow) ELSE 0,
                   IF dhigh >= 0 THEN Sqrt(dhigh) ELSE 0>>,
         log |-> (IF dlow >= 0 THEN <<>>
                  ELSE <<[level |-> "warning", what |-> "low_larger",
                          arg |-> <<self.name, poi.err[1], self.err[1]>>]>>)
                 \o (IF dhigh >= 0 THEN <<>>
                     ELSE <<[level |-> "warning", what |-> "high_larger",
                             arg |-> <<self.name, poi.err[2], self.err[2]>>]>>)]

\* glob.glob('{}_*{}'.format(base, ext)): the directory entries that match
GlobMatches(dir, base, ext) ==
    {p \in dir : /\ StartsWith(p, base \o <<"_">>)
                 /\ EndsWith(p, ext)
                 /\ Len(p) >= Len(base) + 1 + Len(ext)}

\* get_fnames, its loop over the glob result
RECURSIVE AddAltFnames(_, _, _, _)
AddAltFnames(dict, alt_fnames, base, ext) ==
    IF alt_fnames = <<>> THEN dict
    ELSE LET alt_fname == alt_fnames[1]
             gname == SplitOn(SplitOn(alt_fname, base \o <<"_">>)[2], ext)[1]
         IN  AddAltFnames(Put(dict, gname, alt_fname), Tail(alt_fnames), base, ext)

\* get_fnames, given the order glob returned the matches in
get_fnames(fname, alt_fnames) ==
    LET parts == SplitExt(fname) IN
    AddAltFnames(<<[key |-> Base, val |-> fname]>>, alt_fnames, parts[1], parts[2])

\* load_poi_data, the loop over one workspace's variables: tmp[gname]
RECURSIVE LoadVars(_, _, _)
LoadVars(all_vars, plist, dict) ==
    IF all_vars = <<>> THEN dict
    ELSE LET var  == all_vars[1]
             isMU == StartsWith(var.name, MuPrefix)
         IN  IF ~isMU THEN LoadVars(Tail(all_vars), plist, dict)
             ELSE IF plist # <<>> /\ ~InList(plist, var.name)
                  THEN LoadVars(Tail(all_vars), plist, dict)
             ELSE LoadVars(Tail(all_vars), plist,
                           Put(dict, var.name, POI(var.name, var.val, var.lo, var.hi)))

\* LoadFiles with a fault: an empty group is not fatal
RECURSIVE LoadFilesNoCheck(_, _, _)
LoadFilesNoCheck(names, files, plist) ==
    IF names = <<>> THEN [exit |-> FALSE, tmp |-> <<>>, log |-> <<>>]
    ELSE LET rest == LoadFilesNoCheck(Tail(names), files, plist) IN
         [exit |-> FALSE,
          tmp  |-> <<[key |-> names[1].key,
                      val |-> LoadVars(files[names[1].val], plist, <<>>)]>> \o rest.tmp,
          log  |-> <<>>]

\* load_poi_data, the loop over the files: tmp, or sys.exit(1) at the first
\* file without a matching POI
RECURSIVE LoadFiles(_, _, _)
LoadFiles(names, files, plist) ==
    IF names = <<>> THEN [exit |-> FALSE, tmp |-> <<>>, log |-> <<>>]
    ELSE LET gname == names[1].key
             pois  == LoadVars(files[names[1].val], plist, <<>>)
         IN  IF pois = <<>>
             THEN [exit |-> TRUE, tmp |-> <<>>,
                   log |-> <<[level |-> "error", what |-> "no_pois",
                              arg |-> names[1].val]>>]
             ELSE LET rest == LoadFiles(Tail(names), files, plist) IN
                  [exit |-> rest.exit,
                   tmp  |-> <<[key |-> gname, val |-> pois]>> \o rest.tmp,
                   log  |-> rest.log]

\* load_poi_data, the restructuring: tmp[gname][pname] raises KeyError when
\* a group lacks a POI of Base
Restructure(tmp, names) ==
    LET pnames == Keys(Get(tmp, Base)) IN
    IF \E p \in 1..Len(pnames) : \E g \in 1..Len(names) :
          ~HasKey(Get(tmp, names[g].key), pnames[p])
    THEN [raised |-> TRUE, poi_data |-> <<>>]
    ELSE [raised |-> FALSE,
          poi_data |-> [p \in 1..Len(pnames) |->
             [key |-> pnames[p],
              val |-> [g \in 1..Len(names) |->
                         [key |-> names[g].key,
                          val |-> Get(Get(tmp, names[g].key), pnames[p])]]]]]

\* Flagged with a fault: the comparison is >= instead of >
FlaggedAtBoundary(base_poi, alt_poi) ==
    Abs(base_poi.value - alt_poi.value) * 2 * TolDen
        >= TolNum * (Abs(base_poi.err[1]) + Abs(base_poi.err[2]))

\* check_fit_results, its comparison for 2 * base_sigma > 0:
\* abs(base - alt) / base_sigma > tolerance
Flagged(base_poi, alt_poi) ==
    Abs(base_poi.value - alt_poi.value) * 2 * TolDen
        > TolNum * (Abs(base_poi.err[1]) + Abs(base_poi.err[2]))

\* check_fit_results, the loop over one POI's groups: the division raises
\* ZeroDivisionError when base_sigma is 0
RECURSIVE CheckGroups(_, _, _)
CheckGroups(pname, base_poi, entries) ==
    IF entries = <<>> THEN [raised |-> FALSE, log |-> <<>>]
    ELSE IF entries[1].key = Base THEN CheckGroups(pname, base_poi, Tail(entries))
    ELSE IF Abs(base_poi.err[1]) + Abs(base_poi.err[2]) = 0
         THEN [raised |-> TRUE, log |-> <<>>]
    ELSE LET rest == CheckGroups(pname, base_poi, Tail(entries)) IN
         [raised |-> rest.raised,
          log |-> (IF Flagged(base_poi, entries[1].val)
                   THEN <<[level |-> "warning", what |-> "inconsistent",
                           arg |-> <<pname, entries[1].key>>]>>
                   ELSE <<>>) \o rest.log]

\* check_fit_results: the warnings logged, and whether it raised
RECURSIVE check_fit_results(_)
check_fit_results(data) ==
    IF data = <<>> THEN [raised |-> FALSE, log |-> <<>>]
    ELSE LET first == CheckGroups(data[1].key, Get(data[1].val, Base), data[1].val) IN
         IF first.raised THEN first
         ELSE LET rest == check_fit_results(Tail(data)) IN
              [raised |-> rest.raised, log |-> first.log \o rest.log]

\* compute_impacts, the loop over one POI's groups
RECURSIVE ImpactGroups(_, _)
ImpactGroups(base_poi, entries) ==
    IF entries = <<>> THEN [impacts |-> <<>>, log |-> <<>>]
    ELSE LET rest == ImpactGroups(base_poi, Tail(entries)) IN
         IF entries[1].key = Base THEN rest
         ELSE LET r == sub_quad_errs(base_poi, entries[1].val) IN
              [impacts |-> <<[key |-> entries[1].key, val |-> r.res]>> \o rest.impacts,
               log |-> r.log \o rest.log]

\* compute_impacts
RECURSIVE compute_impacts(_)
compute_impacts(data) ==
    IF data = <<>> THEN [impacts |-> <<>>, log |-> <<>>]
    ELSE LET first == ImpactGroups(Get(data[1].val, Base), data[1].val)
             rest  == compute_impacts(Tail(data))
         IN  [impacts |-> <<[key |-> data[1].key, val |-> first.impacts]>> \o rest.impacts,
              log |-> first.log \o rest.log]

\* print_syst_breakdown: print_last
print_last == << <<"A","l","l","S","y","s">>, <<"A","l","l","S","y","s","+","Q","C","D","y","i","e","l","d">>, <<"A","l","l","S","y","s","+","Q","C","D","s","h","a","p","e">>, <<"A","l","l","S","y","s","+","Q","C","D">> >>

\* print_syst_breakdown: one table row; the numbers are those handed to
\* '{:.4f}'.format
Row(pname, gname, poi, imp) ==
    [kind |-> "row", poi |-> pname, group |-> gname, value |-> poi.value,
     err_low |-> poi.err[1], err_high |-> poi.err[2], imp |-> imp]

\* print_syst_breakdown, the first loop: every group but Base and print_last
RECURSIVE AltRows(_, _, _)
AltRows(pname, entries, imps) ==
    IF entries = <<>> THEN <<>>
    ELSE IF entries[1].key = Base \/ InList(print_last, entries[1].key)
         THEN AltRows(pname, Tail(entries), imps)
    ELSE <<Row(pname, entries[1].key, entries[1].val, Get(imps, entries[1].key))>>
         \o AltRows(pname, Tail(entries), imps)

\* LastRows with a fault: print_last is walked in the order the groups were found
RECURSIVE LastRowsAsFound(_, _, _, _)
LastRowsAsFound(pname, entries, imps, last) ==
    IF entries = <<>> THEN <<>>
    ELSE (IF InList(last, entries[1].key)
          THEN <<Row(pname, entries[1].key, entries[1].val, Get(imps, entries[1].key))>>
          ELSE <<>>) \o LastRowsAsFound(pname, Tail(entries), imps, last)

\* print_syst_breakdown, the second loop: the groups of print_last that are present
RECURSIVE LastRows(_, _, _, _)
LastRows(pname, entries, imps, last) ==
    IF last = <<>> THEN <<>>
    ELSE IF ~HasKey(entries, last[1]) THEN LastRows(pname, entries, imps, Tail(last))
    ELSE <<Row(pname, last[1], Get(entries, last[1]), Get(imps, last[1]))>>
         \o LastRows(pname, entries, imps, Tail(last))

\* print_syst_breakdown, one pass of its loop over the POIs
PoiTable(pname, entries, imps) ==
    LET base_poi == Get(entries, Base) IN
    <<[kind |-> "heading", poi |-> base_poi.name]>>
    \o <<Row(pname, Base, base_poi, <<"-", "-">>)>>
    \o AltRows(pname, entries, imps)
    \o LastRows(pname, entries, imps, print_last)
    \o <<[kind |-> "rule", poi |-> pname]>>

\* print_syst_breakdown: the lines printed
RECURSIVE print_syst_breakdown(_, _)
print_syst_breakdown(data, imps) ==
    IF data = <<>> THEN <<>>
    ELSE PoiTable(data[1].key, data[1].val, Get(imps, data[1].key))
         \o print_syst_breakdown(Tail(data), imps)

\* The inputs of a stage 2 run ---------------------------------------------

Var(name, val, lo, hi) == [name |-> name, val |-> val, lo |-> lo, hi |-> hi]

\* the workspaces a fit result may hold: variables in allVars() order, with
\* getVal(), getErrorLo() and getErrorHi() of the snapshot; getErrorLo() is
\* the signed lower error (zero or negative), getErrorHi() the upper one
Workspaces ==
    { <<Var(<<"a","l","p","h","a","_","x">>, 3, -10, 10)>>,
      <<Var(<<"a","l","p","h","a","_","x">>, 3, -10, 10), Var(<<"m","u","_","a">>, 10, -6, 6)>>,
      <<Var(<<"m","u","_","a">>, 10, -7, 4)>>,
      <<Var(<<"m","u","_","a">>, 13, -4, 4), Var(<<"m","u","x">>, 1, -1, 1)>>,
      <<Var(<<"m","u","_","a">>, 10, 0, 0)>>,
      <<Var(<<"m","u","_","b">>, 20, -2, 2), Var(<<"m","u","_","a">>, 14, -5, 5)>> }

Inputs == { <<"o","u","t",".","r","o","o","t">> }

AltNames ==
    { <<"s","y","s","A">>, <<"b","_","t","a","g">>, <<"x",".","r","o","o","t","b">>, <<"o","u","t","_","y">>, <<"A","l","l","S","y","s">>, <<"A","l","l","S","y","s","+","Q","C","D">> }

PoiLists == { <<>>, << <<"m","u","_","b">> >> }

\* the -o value edit_cmd gives the command of a group
AltPath(fname, gname) == EditOut(<<OptO, fname>>, gname).split[2]

Perms(S) ==
    {s \in [1..Cardinality(S) -> S] : \A i, j \in 1..Cardinality(S) : i # j => s[i] # s[j]}

InitBreakdown ==
    /\ pc = "get_fnames"
    /\ exit_code = -1
    /\ log = <<>>
    /\ input \in Inputs
    /\ used \in {U \in SUBSET AltNames : Cardinality(U) <= MaxGroups}
    /\ fs \in [{input} \cup {AltPath(input, g) : g \in used} -> Workspaces]
    /\ poi_list \in PoiLists
    /\ fnames = <<>> /\ poi_data = <<>> /\ impacts = <<>> /\ report = <<>>
    /\ cmd = <<>> /\ groups = <<>> /\ NPinfo = <<>> /\ condor = FALSE
    /\ gi = 0 /\ alt_cmds = <<>> /\ dispatched = <<>>

\* main: fnames = get_fnames(args.input); glob returns the matches in any order
GetFnames ==
    /\ pc = "get_fnames"
    /\ \E alt_fnames \in Perms(GlobMatches(DOMAIN fs, SplitExt(input)[1], SplitExt(input)[2])) :
          fnames' = get_fnames(input, alt_fnames)
    /\ pc' = "load_poi_data"
    /\ UNCHANGED <<exit_code, log, input, used, fs, poi_list, poi_data, impacts, report>>
    /\ UNCHANGED fitsVars

\* main: poi_data = load_poi_data(fnames, args.ws, args.ss, poi_list)
LoadPoiData ==
    /\ pc = "load_poi_data"
    /\ LET l == LoadFiles(fnames, fs, poi_list) IN
       IF l.exit
       THEN /\ pc' = "exited"
            /\ exit_code' = 1
            /\ log' = log \o l.log
            /\ UNCHANGED poi_data
       ELSE LET r == Restructure(l.tmp, fnames) IN
            IF r.raised
            THEN /\ pc' = "crashed"
                 /\ exit_code' = 1
                 /\ log' = log \o <<[level |-> "traceback", what |-> "KeyError",
                                     arg |-> <<"load_poi_data">>]>>
                 /\ UNCHANGED poi_data
            ELSE /\ pc' = "check_fit_results"
                 /\ poi_data' = r.poi_data
                 /\ UNCHANGED <<exit_code, log>>
    /\ UNCHANGED <<input, used, fs, poi_list, fnames, impacts, report>>
    /\ UNCHANGED fitsVars

\* main: check_fit_results(poi_data, 0.5)
CheckFitResults ==
    /\ pc = "check_fit_results"
    /\ LET c == check_fit_results(poi_data) IN
       /\ log' = log \o c.log
                 \o (IF c.raised
                     THEN <<[level |-> "traceback", what |-> "ZeroDivisionError",
                             arg |-> <<"check_fit_results">>]>>
                     ELSE <<>>)
       /\ pc' = IF c.raised THEN "crashed" ELSE "compute_impacts"
       /\ exit_code' = IF c.raised THEN 1 ELSE exit_code
    /\ UNCHANGED <<input, used, fs, poi_list, fnames, poi_data, impacts, report>>
    /\ UNCHANGED fitsVars

\* main: impacts = compute_impacts(poi_data)
ComputeImpacts ==
    /\ pc = "compute_impacts"
    /\ LET c == compute_impacts(poi_data) IN
       /\ impacts' = c.impacts
       /\ log' = log \o c.log
    /\ pc' = "print_syst_breakdown"
    /\ UNCHANGED <<exit_code, input, used, fs, poi_list, fnames, poi_data, report>>
    /\ UNCHANGED fitsVars

\* main: print_syst_breakdown(poi_data, impacts), then main returns None
PrintSystBreakdown ==
    /\ pc = "print_syst_breakdown"
    /\ report' = <<[kind |-> "title", poi |-> <<>>]>> \o print_syst_breakdown(poi_data, impacts)
    /\ pc' = "done"
    /\ exit_code' = 0
    /\ UNCHANGED <<log, input, used, fs, poi_list, fnames, poi_data, impacts>>
    /\ UNCHANGED fitsVars

NextBreakdown ==
    \/ GetFnames
    \/ LoadPoiData
    \/ CheckFitResults
    \/ ComputeImpacts
    \/ PrintSystBreakdown

SpecBreakdown == InitBreakdown /\ [][NextBreakdown]_vars

(***************************************************************************)
(* Claims about run_fits.py, checked under SpecFits                        *)
(***************************************************************************)

\* the token that follows the first occurrence of a flag
OptValue(tokens, flag) == tokens[IndexOf(tokens, flag) + 1]

HasValue(tokens, flag) ==
    InList(tokens, flag) /\ IndexOf(tokens, flag) < Len(tokens)

\* the baseline command has a -o value ending in .root
WellFormedOut(c) ==
    /\ HasValue(SplitWs(c), OptO)
    /\ EndsWith(OptValue(SplitWs(c), OptO), RootExt)
    /\ Len(OptValue(SplitWs(c), OptO)) > Len(RootExt)

\* the baseline command has a -p value holding a POI assignment
WellFormedPois(c) ==
    /\ HasValue(SplitWs(c), OptP)
    /\ InList(OptValue(SplitWs(c), OptP), "=")

\* s with t inserted before its last n characters
InsertBeforeLast(s, t, n) ==
    Slice(s, 1, Len(s) - n) \o t \o Slice(s, Len(s) - n + 1, Len(s))

ExpectedEntries(systs, info) ==
    {info[k].key \o <<"=">> \o FormatFloat(info[k].val) :
        k \in {k \in 1..Len(info) :
                 \E s \in 1..Len(systs) : Contains(info[k].key, systs[s])}}

\* the entries of a comma-separated list
ListEntries(str) == IF str = <<>> THEN {} ELSE Range(SplitOn(str, <<",">>))

Unmatched(systs, info) ==
    {systs[s] : s \in {s \in 1..Len(systs) :
                         \A k \in 1..Len(info) : ~Contains(info[k].key, systs[s])}}

\* C3: for a baseline whose -p value holds a POI assignment, the command
\* derived for the i-th group has as -p value the baseline's -p value, a
\* comma, and the name=value entries of exactly the parameters whose name
\* contains one of the group's substrings; a substring matching nothing
\* adds no entry and is warned about; when generation returns there is one
\* command per group, the i-th command being that of the i-th declared group.
C3_FixedListAppended ==
    WellFormedPois(cmd) =>
        /\ \A i \in 1..Len(alt_cmds) :
              LET base == OptValue(SplitWs(cmd), OptP)
                  new  == OptValue(SplitWs(alt_cmds[i]), OptP)
              IN  /\ StartsWith(new, base \o <<",">>)
                  /\ ListEntries(Slice(new, Len(base) + 2, Len(new)))
                       = ExpectedEntries(groups[i].systs, NPinfo)
                  /\ WellFormedOut(cmd) =>
                        EndsWith(OptValue(SplitWs(alt_cmds[i]), OptO),
                                 <<"_">> \o groups[i].name \o RootExt)
        /\ \A i \in 1..gi : \A s \in Unmatched(groups[i].systs, NPinfo) :
              \E l \in 1..Len(log) : log[l].what = "no_np_info" /\ log[l].arg = s
        /\ \A l \in 1..Len(log) : log[l].what = "no_np_info" =>
              \E i \in 1..Len(groups) : log[l].arg \in Unmatched(groups[i].systs, NPinfo)
        /\ Len(alt_cmds) = gi
        /\ pc \in {"dispatch", "done"} => Len(alt_cmds) = Len(groups)

\* C3 witness: a command was derived for a group with a substring that
\* matches a longer parameter name and for a group with one matching nothing
C3_Witness ==
    /\ WellFormedPois(cmd)
    /\ pc = "done"
    /\ Len(alt_cmds) = 2
    /\ \E i \in 1..2 : Unmatched(groups[i].systs, NPinfo) # {}
    /\ \E i \in 1..2 : ExpectedEntries(groups[i].systs, NPinfo) # {}

\* the baseline command is malformed in one of the three ways of the claim
Malformed(c) ==
    LET t == SplitWs(c) IN
    \/ InList(t, OptO) /\ ~HasValue(t, OptO)
    \/ InList(t, OptP) /\ ~HasValue(t, OptP)
    \/ HasValue(t, OptO) /\ ~EndsWith(OptValue(t, OptO), RootExt)
    \/ HasValue(t, OptP) /\ ~InList(OptValue(t, OptP), "=")

\* C4: with a malformed baseline command and at least one group, no derived
\* command is ever dispatched, locally or to batch, and the run does not end
\* with an exit code other than 1.
C4_MalformedIsFatal ==
    (Malformed(cmd) /\ groups # <<>>) =>
        /\ dispatched = <<>>
        /\ exit_code \in {-1, 1}

(***************************************************************************)
(* Claims about syst_breakdown.py, checked under SpecBreakdown             *)
(***************************************************************************)

\* the (POI name, group name) pairs of poi_data with a group other than Base
AltPairs ==
    {<<p, g>> \in (1..Len(poi_data)) \X (1..Len(fnames)) :
        g <= Len(poi_data[p].val) /\ poi_data[p].val[g].key # Base}

BasePoi(p) == Get(poi_data[p].val, Base)
AltPoi(p, g) == poi_data[p].val[g].val
Impact(p, g) == Get(Get(impacts, poi_data[p].key), poi_data[p].val[g].key)

ImpactsComputed == pc \in {"print_syst_breakdown", "done"}

\* i is the square root of n, rounded down
IsRoot(i, n) == n >= 0 /\ i >= 0 /\ i * i <= n /\ n < (i + 1) * (i + 1)

SideWarning(side) == IF side = 1 THEN "low_larger" ELSE "high_larger"

WarnedSide(p, g, side) ==
    \E l \in 1..Len(log) :
        /\ log[l].what = SideWarning(side)
        /\ log[l].arg = <<poi_data[p].key, AltPoi(p, g).err[side], BasePoi(p).err[side]>>

NoMatchingPoi(ws) ==
    \A v \in 1..Len(ws) :
        ~(StartsWith(ws[v].name, MuPrefix)
          /\ (poi_list = <<>> \/ ws[v].name \in Range(poi_list)))

Loaded == pc \notin {"get_fnames", "load_poi_data"}

SomeEmpty == \E i \in 1..Len(fnames) : NoMatchingPoi(fs[fnames[i].val])

\* C5: when the container of Base or of a discovered group has no matching
\* POI, the run ends in load_poi_data with exit code 1: nothing is checked,
\* no impact is computed and nothing is printed.
C5_EmptyGroupAborts ==
    (Loaded /\ SomeEmpty) =>
        /\ pc = "exited"
        /\ exit_code = 1
        /\ report = <<>>
        /\ impacts = <<>>
        /\ poi_data = <<>>
        /\ \A l \in 1..Len(log) : log[l].what = "no_pois"

\* C5 witness: Base and the first group hold POIs, the last group holds none,
\* and the run has exited
C5_Witness ==
    /\ pc = "exited"
    /\ Len(fnames) = 3
    /\ ~NoMatchingPoi(fs[fnames[1].val])
    /\ ~NoMatchingPoi(fs[fnames[2].val])
    /\ NoMatchingPoi(fs[fnames[3].val])

\* C6: check_fit_results never halts the run: it raises nothing, whatever
\* the POI data and the tolerance.
C6_CheckNeverHalts ==
    \A l \in 1..Len(log) : log[l].what # "ZeroDivisionError"

Warned(p, g) ==
    \E l \in 1..Len(log) :
        /\ log[l].what = "inconsistent"
        /\ log[l].arg = <<poi_data[p].key, poi_data[p].val[g].key>>

\* twice base_scale, the sum of the two error magnitudes of Base
Scale2(p) == Abs(BasePoi(p).err[1]) + Abs(BasePoi(p).err[2])

Deviation(p, g) == Abs(AltPoi(p, g).value - BasePoi(p).value)

\* |alt - base| / base_scale compared with the tolerance, for base_scale > 0
RatioAbove(p, g)   == Deviation(p, g) * 2 * TolDen > TolNum * Scale2(p)
RatioAtLeast(p, g) == Deviation(p, g) * 2 * TolDen >= TolNum * Scale2(p)

Checked == pc \in {"compute_impacts", "print_syst_breakdown", "done"}

C8_RoundTrip ==
    pc # "get_fnames" =>
        {<<fnames[i].key, fnames[i].val>> : i \in 1..Len(fnames)}
          = {<<Base, input>>} \cup {<<g, AltPath(input, g)>> : g \in used}

\* the aggregate groups, in the order they are to be printed
Aggregates == << <<"A","l","l","S","y","s">>, <<"A","l","l","S","y","s","+","Q","C","D","y","i","e","l","d">>, <<"A","l","l","S","y","s","+","Q","C","D","s","h","a","p","e">>, <<"A","l","l","S","y","s","+","Q","C","D">> >>

\* the groups of the rows printed for a POI, in print order
RECURSIVE RowGroups(_, _)
RowGroups(lines, pname) ==
    IF lines = <<>> THEN <<>>
    ELSE (IF lines[1].kind = "row" /\ lines[1].poi = pname
          THEN <<lines[1].group>> ELSE <<>>) \o RowGroups(Tail(lines), pname)

\* C9: in each POI's table the Base row is first, the aggregate groups that
\* are present are the last rows, in their declared order, whatever order the
\* groups were discovered in, and every loaded group has exactly one row.
C9_RowOrder ==
    pc = "done" =>
        \A p \in 1..Len(poi_data) :
            LET rows == RowGroups(report, poi_data[p].key) IN
            /\ rows[1] = Base
            /\ Len(rows) = Len(poi_data[p].val)
            /\ Range(rows) = Range(Keys(poi_data[p].val))
            /\ \A i, j \in 1..Len(rows) :
                  (i < j /\ InList(Aggregates, rows[i])) =>
                      /\ InList(Aggregates, rows[j])
                      /\ IndexOf(Aggregates, rows[i]) < IndexOf(Aggregates, rows[j])

\* C9 witness: the report was printed after AllSys+QCD was discovered before
\* AllSys
C9_Witness ==
    /\ pc = "done"
    /\ Keys(fnames) = <<Base, Aggregates[4], Aggregates[1]>>
    /\ Len(report) > 1

\* the POI names the claim expects: the variables of the baseline container
\* that pass the prefix filter and the allow-list
ExpectedPois ==
    {fs[input][v].name :
        v \in {v \in 1..Len(fs[input]) :
                 /\ StartsWith(fs[input][v].name, MuPrefix)
                 /\ (poi_list = <<>> \/ fs[input][v].name \in Range(poi_list))}}

\* C10: when no container is empty, load_poi_data returns normally with one
\* POI instance for every POI name of Base and every group name found.
C10_LoadComplete ==
    (Loaded /\ ~SomeEmpty) =>
        /\ \A l \in 1..Len(log) : log[l].what # "KeyError"
        /\ {<<poi_data[p].key, poi_data[p].val[g].key>> :
               p \in 1..Len(poi_data), g \in 1..Len(fnames)}
             = ExpectedPois \X Range(Keys(fnames))

==========================================================================
